---- MODULE Spec2Model ----
(***************************************************************************)
(* A model of belvedere_rss_generator.py: the BelvedereRSSGenerator class  *)
(* (date normalisation, article extraction, page segmentation, feed        *)
(* assembly, run) and main.                                                *)
(*                                                                         *)
(* Texts are sequences of tokens, class names and hrefs are sequences of   *)
(* syllables/segments, so that the substring, prefix and regular           *)
(* expression tests of the code are computed on them.                      *)
(***************************************************************************)
EXTENDS Integers, Sequences, FiniteSets, TLC

VARIABLES
    libs,        \* HAS_DATEUTIL and HAS_PYTZ (set together, lines 23-30)
    now,         \* the current clock (UTC), read by datetime.now
    d_input,     \* date normaliser: the call under study
    d_results,   \* date normaliser: the strings returned so far
    pc,          \* where the process is: start, parse, loop, generate, returned, raised, exited
    page,        \* the document the news URL serves
    out_file,    \* the output_file argument of run
    html,        \* html_content of run: "None", "" or "page"
    article_elements,  \* parse_news_page: the candidate list
    tier,        \* which tier of parse_news_page filled article_elements (0: none)
    idx,         \* parse_news_page: position of the loop in article_elements[:20]
    seen_links,  \* parse_news_page: seen_links
    articles,    \* parse_news_page: articles; then the argument of generate_rss
    failed,      \* positions whose processing raised (the except branch)
    feed,        \* what generate_rss wrote or returned
    calls,       \* how many times parse_news_page and generate_rss were called
    ret,         \* what run returned: "none", "True" or "False"
    exit_code    \* the exit status of the process, -1 while it runs

dvars == <<libs, now, d_input, d_results>>
rvars == <<pc, page, out_file, html, article_elements, tier, idx, seen_links,
           articles, failed, feed, calls, ret, exit_code>>
vars == <<dvars, rvars>>

(***************************************************************************)
(* Calendar                                                                *)
(***************************************************************************)
IsLeap(y) == (y % 4 = 0 /\ y % 100 # 0) \/ y % 400 = 0

DaysInMonth(y, m) ==
    IF m = 2 THEN (IF IsLeap(y) THEN 29 ELSE 28)
    ELSE IF m \in {4, 6, 9, 11} THEN 30 ELSE 31

\* datetime(year, month, day, ...) raises ValueError outside these ranges
ValidDate(y, m, d) ==
    /\ y >= 1 /\ y <= 9999
    /\ m >= 1 /\ m <= 12
    /\ d >= 1 /\ d <= DaysInMonth(y, m)

\* %a of strftime: 0 = Sun .. 6 = Sat
DayOfWeek(y, m, d) ==
    LET t  == <<0, 3, 2, 5, 0, 3, 5, 1, 4, 6, 2, 4>>
        yy == IF m < 3 THEN y - 1 ELSE y
    IN (yy + (yy \div 4) - (yy \div 100) + (yy \div 400) + t[m] + d) % 7

\* America/Los_Angeles at noon of a civil date (zone rules from 2007 on):
\* advanced from the second Sunday of March to the first Sunday of November
PacificDST(y, m, d) ==
    LET marchStart == 8 + ((7 - DayOfWeek(y, 3, 8)) % 7)
        novEnd     == 1 + ((7 - DayOfWeek(y, 11, 1)) % 7)
    IN \/ (m > 3 /\ m < 11)
       \/ (m = 3 /\ d >= marchStart)
       \/ (m = 11 /\ d < novEnd)

\* The offsets as strftime('%z') prints them
PDT == -700
PST == -800
\* what %z prints for a pytz zone attached with datetime.replace(tzinfo=...):
\* the zone's first entry, local mean time
LMT == -753
UTC == 0

\* hours to add to UTC for an offset printed by %z
OffsetHours(off) == IF off = PDT THEN -7 ELSE IF off = PST THEN -8 ELSE 0

PrevDay(c) ==
    IF c.d > 1 THEN [c EXCEPT !.d = c.d - 1]
    ELSE IF c.m > 1 THEN [c EXCEPT !.m = c.m - 1, !.d = DaysInMonth(c.y, c.m - 1)]
    ELSE [c EXCEPT !.y = c.y - 1, !.m = 12, !.d = 31]

\* a UTC clock value seen in a zone with a negative whole-hour offset
ShiftClock(c, off) ==
    LET h == c.h + OffsetHours(off)
    IN IF h >= 0 THEN [c EXCEPT !.h = h] ELSE [PrevDay(c) EXCEPT !.h = h + 24]

\* strftime('%a, %d %b %Y %H:%M:%S %z')
Format(y, m, d, h, mi, off) ==
    [wd |-> DayOfWeek(y, m, d), d |-> d, mon |-> m, y |-> y,
     h |-> h, mi |-> mi, off |-> off]

(***************************************************************************)
(* Date texts.  A date text is [form, word, a, b, year, tail]:             *)
(*   form "named":  "<word> <a>, <year>"        (b unused)                 *)
(*   form "slash":  "<a>/<b>/<year>"                                       *)
(*   form "iso":    "<year>-<a>-<b>"                                       *)
(*   tail: what follows the year: "none", "junk" (other words) or "zone"   *)
(*         (a time of day with a zone designation, " 09:30 UTC")           *)
(***************************************************************************)
Named(w, day, year, tail) ==
    [form |-> "named", word |-> w, a |-> day, b |-> 0, year |-> year, tail |-> tail]
Slash(a, b, year) ==
    [form |-> "slash", word |-> "", a |-> a, b |-> b, year |-> year, tail |-> "none"]
Iso(year, a, b) ==
    [form |-> "iso", word |-> "", a |-> a, b |-> b, year |-> year, tail |-> "none"]

\* str.lower() on the words used here
Lower(w) ==
    CASE w = "May" -> "may"
      [] w = "January" -> "january"
      [] w = "MARCH" -> "march"
      [] w = "Nov" -> "nov"
      [] w = "Sept" -> "sept"
      [] w = "Room" -> "room"
      [] w = "Posted on" -> "posted on"
      [] w = "POSTED ON" -> "posted on"
      [] w = "Published on" -> "published on"
      [] OTHER -> w

\* month_map of parse_date_string: full names and 3-letter abbreviations
month_map ==
    [n \in {"january", "february", "march", "april", "may", "june", "july",
            "august", "september", "october", "november", "december",
            "jan", "feb", "mar", "apr", "jun", "jul", "aug", "sep", "oct",
            "nov", "dec"} |->
        CASE n \in {"january", "jan"} -> 1
          [] n \in {"february", "feb"} -> 2
          [] n \in {"march", "mar"} -> 3
          [] n \in {"april", "apr"} -> 4
          [] n = "may" -> 5
          [] n \in {"june", "jun"} -> 6
          [] n \in {"july", "jul"} -> 7
          [] n \in {"august", "aug"} -> 8
          [] n \in {"september", "sep"} -> 9
          [] n \in {"october", "oct"} -> 10
          [] n \in {"november", "nov"} -> 11
          [] n \in {"december", "dec"} -> 12]

NoParse == [ok |-> FALSE, y |-> 0, m |-> 0, d |-> 0, h |-> 0, mi |-> 0, aware |-> FALSE]

Parsed(y, m, d, tail) ==
    IF ~ValidDate(y, m, d) THEN NoParse
    ELSE [ok |-> TRUE, y |-> y, m |-> m, d |-> d,
          h |-> IF tail = "zone" THEN 9 ELSE 0,
          mi |-> IF tail = "zone" THEN 30 ELSE 0,
          aware |-> tail = "zone"]

\* date_parser.parse(date_str) of dateutil, on the date texts above: month
\* names (its table also knows "sept"), numeric dates with the month first
\* unless the first number exceeds 12, year-first dates as year-month-day;
\* any token it does not know, or an impossible date, raises
dateutil_parse(ds) ==
    IF ds.tail = "junk" THEN NoParse
    ELSE IF ds.form = "named" THEN
        LET n == Lower(ds.word) IN
        IF n \in DOMAIN month_map THEN Parsed(ds.year, month_map[n], ds.a, ds.tail)
        ELSE IF n = "sept" THEN Parsed(ds.year, 9, ds.a, ds.tail)
        ELSE NoParse
    ELSE IF ds.form = "slash" THEN
        IF ds.a > 12 THEN Parsed(ds.year, ds.b, ds.a, ds.tail)
        ELSE Parsed(ds.year, ds.a, ds.b, ds.tail)
    ELSE Parsed(ds.year, ds.a, ds.b, ds.tail)

(***************************************************************************)
(* Time zones.  A zone object is [kind |-> "pytz"] (America/Los_Angeles)   *)
(* or [kind |-> "fixed", off |-> offset].                                  *)
(***************************************************************************)
PytzZone == [kind |-> "pytz", off |-> 0]
FixedZone(off) == [kind |-> "fixed", off |-> off]
None == [none |-> TRUE]

\* the rough rule of get_pacific_timezone: 3 <= month <= 11
RoughOffset(month) == IF 3 <= month /\ month <= 11 THEN PDT ELSE PST

\* a variant that takes the season from the clock whatever the date
get_pacific_timezone_clock(lb, date_obj, c) ==
    IF lb THEN PytzZone ELSE FixedZone(RoughOffset(c.m))

get_pacific_timezone(lb, date_obj, c) ==
    IF lb THEN PytzZone
    ELSE IF date_obj # None THEN FixedZone(RoughOffset(date_obj.m))
    ELSE FixedZone(RoughOffset(c.m))

\* pacific_tz.localize(naive): the zone's offset on that civil date
Localize(y, m, d) == IF PacificDST(y, m, d) THEN PDT ELSE PST

\* dt.replace(tzinfo=tz) followed by %z
ReplaceTzinfo(tz) == IF tz.kind = "pytz" THEN LMT ELSE tz.off

\* datetime.now(tz).strftime(...)
NowIn(tz, c) ==
    LET off == IF tz.kind = "pytz"
               THEN (LET s == ShiftClock(c, PST) IN Localize(s.y, s.m, s.d))
               ELSE tz.off
        l   == ShiftClock(c, off)
    IN Format(l.y, l.m, l.d, l.h, l.mi, off)

\* re.match(r'([A-Za-z]+)\s+(\d{1,2}),?\s+(\d{4})', date_str.strip()): a
\* prefix match, so whatever follows the year is ignored
MonthDayYearMatch(ds) == ds.form = "named"

parse_date_string(ds, lb, c) ==
    LET p == dateutil_parse(ds) IN
    IF lb /\ p.ok THEN
        IF p.aware THEN Format(p.y, p.m, p.d, p.h, p.mi, UTC)
        ELSE Format(p.y, p.m, p.d, 12, 0, Localize(p.y, p.m, p.d))
    ELSE IF /\ MonthDayYearMatch(ds)
            /\ Lower(ds.word) \in DOMAIN month_map
            /\ ValidDate(ds.year, month_map[Lower(ds.word)], ds.a)
    THEN LET m  == month_map[Lower(ds.word)]
             tz == get_pacific_timezone(lb, [y |-> ds.year, m |-> m, d |-> ds.a], c)
         IN Format(ds.year, m, ds.a, 12, 0, ReplaceTzinfo(tz))
    ELSE NowIn(get_pacific_timezone(lb, None, c), c)

(***************************************************************************)
(* Texts are sequences of tokens:                                          *)
(*   [k |-> "w", s, len]      other words, len characters long             *)
(*   [k |-> "d", lead, ds]    a date text ds, directly preceded by the     *)
(*                            words lead ("" for none)                     *)
(***************************************************************************)
W(s, n) == [k |-> "w", s |-> s, len |-> n]
D(lead, ds) == [k |-> "d", lead |-> lead, ds |-> ds]

\* date_patterns of extract_date_from_text, in order; re.IGNORECASE
PatternMatches(i, t) ==
    /\ t.k = "d"
    /\ CASE i = 1 -> Lower(t.lead) = "posted on" /\ t.ds.form = "named"
         [] i = 2 -> Lower(t.lead) = "published on" /\ t.ds.form = "named"
         [] i = 3 -> t.ds.form = "named"
         [] i = 4 -> t.ds.form = "slash"
         [] i = 5 -> t.ds.form = "iso"

\* re.search: the leftmost match of pattern i in the text, 0 for none
Search(i, text) ==
    LET hits == {j \in 1..Len(text) : PatternMatches(i, text[j])}
    IN IF hits = {} THEN 0 ELSE CHOOSE j \in hits : \A j2 \in hits : j <= j2

\* the first pattern that matches anywhere, 0 for none
FirstPattern(text) ==
    LET ps == {i \in 1..5 : Search(i, text) # 0}
    IN IF ps = {} THEN 0 ELSE CHOOSE i \in ps : \A i2 \in ps : i <= i2

\* match.group(1) of the winning pattern: the date substring alone
Captured(text) ==
    [text[Search(FirstPattern(text), text)].ds EXCEPT !.tail = "none"]

extract_date_from_text(text, lb, c) ==
    IF FirstPattern(text) # 0 THEN parse_date_string(Captured(text), lb, c)
    ELSE NowIn(get_pacific_timezone(lb, None, c), c)

(***************************************************************************)
(* The date normaliser, called repeatedly on one input while the clock     *)
(* advances.                                                               *)
(***************************************************************************)
MaxCalls == 2

\* clock values (UTC), in increasing order
Clocks ==
    << [y |-> 2026, m |-> 1, d |-> 15, h |-> 18, mi |-> 5],
       [y |-> 2026, m |-> 7, d |-> 1, h |-> 3, mi |-> 40],
       [y |-> 2026, m |-> 12, d |-> 24, h |-> 20, mi |-> 15] >>

ClockSet == {Clocks[i] : i \in 1..Len(Clocks)}

ClockIndex(c) == CHOOSE i \in 1..Len(Clocks) : Clocks[i] = c

DateWords == {"May", "January", "MARCH", "Nov", "Sept", "Room"}
DateDays == {1, 5, 20, 31}
DateYears == {2024, 2025}

DirectInputs ==
    {Named(w, d, y, t) : w \in DateWords, d \in DateDays, y \in DateYears,
                         t \in {"none", "junk", "zone"}}
    \cup {Slash(a, b, y) : a \in {5, 13}, b \in {6, 13}, y \in DateYears}
    \cup {Iso(y, a, b) : a \in {5, 13}, b \in {6, 31}, y \in DateYears}

TextTokens ==
    { W("Council", 7),
      D("", Named("May", 20, 2025, "none")),
      D("", Named("Room", 5, 2025, "none")),
      D("Posted on", Named("January", 5, 2025, "none")),
      D("POSTED ON", Named("Nov", 31, 2024, "none")),
      D("Published on", Named("Sept", 1, 2024, "none")),
      D("", Slash(5, 6, 2025)),
      D("", Iso(2025, 13, 6)),
      D("", Iso(2024, 5, 31)) }

TextInputs ==
    {<<>>} \cup {<<t>> : t \in TextTokens}
           \cup {<<t, u>> : t \in TextTokens, u \in TextTokens}

DateInputs ==
    {[mode |-> "parse", ds |-> ds, text |-> <<>>] : ds \in DirectInputs}
    \cup {[mode |-> "extract", ds |-> Slash(0, 0, 0), text |-> tx] : tx \in TextInputs}

NoDateInput == [mode |-> "none", ds |-> Slash(0, 0, 0), text |-> <<>>]

\* the rest of the program is not running
RunIdle ==
    /\ pc = "idle" /\ page = <<>> /\ out_file = "" /\ html = "None"
    /\ article_elements = <<>> /\ tier = 0 /\ idx = 0 /\ seen_links = {}
    /\ articles = <<>> /\ failed = {} /\ feed = <<>>
    /\ calls = [parse |-> 0, generate |-> 0] /\ ret = "none" /\ exit_code = -1

DateInit ==
    /\ libs \in BOOLEAN
    /\ now \in ClockSet
    /\ d_input \in DateInputs
    /\ d_results = <<>>
    /\ RunIdle

\* one call of parse_date_string or extract_date_from_text at the current clock
DateCall ==
    /\ Len(d_results) < MaxCalls
    /\ d_results' = Append(d_results,
          [at  |-> now,
           out |-> IF d_input.mode = "parse"
                   THEN parse_date_string(d_input.ds, libs, now)
                   ELSE extract_date_from_text(d_input.text, libs, now)])
    /\ UNCHANGED <<libs, now, d_input, rvars>>

\* time passes between calls
ClockAdvance ==
    /\ \E c \in ClockSet : ClockIndex(c) > ClockIndex(now) /\ now' = c
    /\ UNCHANGED <<libs, d_input, d_results, rvars>>

DateNext == DateCall \/ ClockAdvance

SpecDate == DateInit /\ [][DateNext]_vars

(***************************************************************************)
(* URLs.  An href or URL is a sequence of segments, "/" being a segment    *)
(* of its own: "/news/a" is <<"/", "news", "/", "a">>.                     *)
(***************************************************************************)
base_url == <<"https:", "/", "/", "www.cityofbelvedere.org">>
news_url == base_url \o <<"/", "news">>

Schemes == {"https:", "http:"}

HasScheme(u) == Len(u) > 0 /\ u[1] \in Schemes
StartsWithSlash(u) == Len(u) > 0 /\ u[1] = "/"
\* '/' in href
ContainsSlash(u) == \E i \in 1..Len(u) : u[i] = "/"
\* '/news' in href
ContainsNews(u) == \E i \in 1..(Len(u) - 1) : u[i] = "/" /\ u[i + 1] = "news"

\* a variant that leaves the href as written
urljoin_verbatim(base, href) == [ok |-> TRUE, url |-> href]

\* urljoin(base, href) with a base that has no path.  A bracket that opens
\* in the host and never closes makes urlsplit raise ValueError.
urljoin(base, href) ==
    IF HasScheme(href) THEN
        IF \E i \in 1..Len(href) : href[i] = "["
        THEN [ok |-> FALSE, url |-> <<>>]
        ELSE [ok |-> TRUE, url |-> href]
    ELSE IF href = <<>> THEN [ok |-> TRUE, url |-> base]
    ELSE IF StartsWithSlash(href) THEN [ok |-> TRUE, url |-> base \o href]
    ELSE [ok |-> TRUE, url |-> base \o <<"/">> \o href]

(***************************************************************************)
(* The document.  A page is a sequence of elements [tag, cls, kids]; cls   *)
(* is the class attribute as a sequence of syllables; kids are the child   *)
(* nodes in order, each [k, cls, has_href, href, text] with k one of       *)
(* "h" (h1..h4), "a", "s" (span) and "t" (a text node) and text a token    *)
(* sequence.                                                               *)
(***************************************************************************)
H(text) == [k |-> "h", cls |-> <<>>, has_href |-> FALSE, href |-> <<>>, text |-> text]
A(href, text) == [k |-> "a", cls |-> <<>>, has_href |-> TRUE, href |-> href, text |-> text]
Anchor(text) == [k |-> "a", cls |-> <<>>, has_href |-> FALSE, href |-> <<>>, text |-> text]
S(cls, text) == [k |-> "s", cls |-> cls, has_href |-> FALSE, href |-> <<>>, text |-> text]
T(text) == [k |-> "t", cls |-> <<>>, has_href |-> FALSE, href |-> <<>>, text |-> text]

Elem(tag, cls, kids) == [tag |-> tag, cls |-> cls, kids |-> kids]

RECURSIVE Flatten(_)
Flatten(ss) == IF ss = <<>> THEN <<>> ELSE Head(ss) \o Flatten(Tail(ss))

\* class attribute tests of the CSS selectors
ClassIs(e, name) == e.cls = name
ClassContains(e, part) == \E i \in 1..Len(e.cls) : e.cls[i] = part

\* article_selectors, in order
NumSelectors == 7
SelectorMatches(n, e) ==
    CASE n = 1 -> e.tag = "article"
      [] n = 2 -> ClassIs(e, <<"post">>)
      [] n = 3 -> ClassIs(e, <<"news", "-", "item">>)
      [] n = 4 -> ClassIs(e, <<"entry">>)
      [] n = 5 -> ClassContains(e, "post")
      [] n = 6 -> ClassContains(e, "article")
      [] n = 7 -> ClassContains(e, "news")

\* soup.select(selector): every match, in document order
Select(n, doc) == LET M(e) == SelectorMatches(n, e) IN SelectSeq(doc, M)

\* a variant without the break: the last selector with a match wins
LastSelector(doc) ==
    LET hit == {n \in 1..NumSelectors : Select(n, doc) # <<>>}
    IN IF hit = {} THEN 0 ELSE CHOOSE n \in hit : \A n2 \in hit : n >= n2

\* the loop over article_selectors: the first selector with a match wins
FirstSelector(doc) ==
    LET hit == {n \in 1..NumSelectors : Select(n, doc) # <<>>}
    IN IF hit = {} THEN 0 ELSE CHOOSE n \in hit : \A n2 \in hit : n <= n2

\* Tag.string: defined when the element has a single child that has a string
HasString(e) == Len(e.kids) = 1 /\ e.kids[1].text # <<>>

\* elem.find_all('a', href=True)
LinksOf(e) == LET L(kd) == kd.k = "a" /\ kd.has_href IN SelectSeq(e.kids, L)

\* the div/section fallback
Tier2Matches(e) ==
    /\ e.tag \in {"div", "section"}
    /\ HasString(e)
    /\ \E i \in 1..Len(LinksOf(e)) :
          ContainsNews(LinksOf(e)[i].href) \/ ContainsSlash(LinksOf(e)[i].href)

Tier2(doc) == SelectSeq(doc, Tier2Matches)

\* the bare-hyperlink fallback: one candidate (the parent) per qualifying link
Tier3Link(kd) ==
    /\ kd.k = "a" /\ kd.has_href
    /\ (ContainsNews(kd.href) \/ StartsWithSlash(kd.href))
    /\ kd.text # <<>>

Tier3(doc) ==
    Flatten([i \in 1..Len(doc) |->
        [j \in 1..Len(SelectSeq(doc[i].kids, Tier3Link)) |-> doc[i]]])

\* lines 213-240: the candidate list and the tier that produced it
Candidates(doc) ==
    IF FirstSelector(doc) # 0
    THEN [tier |-> 1, sel |-> FirstSelector(doc), elems |-> Select(FirstSelector(doc), doc)]
    ELSE IF Tier2(doc) # <<>>
    THEN [tier |-> 2, sel |-> 0, elems |-> Tier2(doc)]
    ELSE IF Tier3(doc) # <<>>
    THEN [tier |-> 3, sel |-> 0, elems |-> Tier3(doc)]
    ELSE [tier |-> 0, sel |-> 0, elems |-> <<>>]

(***************************************************************************)
(* extract_article_info                                                    *)
(***************************************************************************)
MaxDescription == 500

IsPrefix(a, b) == Len(a) <= Len(b) /\ SubSeq(b, 1, Len(a)) = a

\* characters of a token as written in the page
TokenChars(t) ==
    IF t.k = "w" THEN t.len
    ELSE (IF t.lead = "" THEN 0 ELSE IF Lower(t.lead) = "posted on" THEN 10 ELSE 13)
         + (IF t.ds.form = "named" THEN 12 ELSE 9)

RECURSIVE TextChars(_)
TextChars(text) ==
    IF text = <<>> THEN 0
    ELSE TokenChars(Head(text)) + (IF Len(text) > 1 THEN 1 ELSE 0) + TextChars(Tail(text))

\* Tag.find: the first match, None when there is none
First(found) == IF found = <<>> THEN None ELSE found[1]

IsHeading(kd) == kd.k = "h"
IsAnchor(kd) == kd.k = "a"
IsLink(kd) == kd.k = "a" /\ kd.has_href
\* class_=re.compile(r'title|headline', re.I)
IsTitleClass(kd) == \E i \in 1..Len(kd.cls) : kd.cls[i] \in {"title", "headline"}

\* find(h1..h4) or find('a') or find(class_=...): a Tag is always true, so
\* the first of the three that is found is taken, even if it has no text
TitleElem(e) ==
    IF First(SelectSeq(e.kids, IsHeading)) # None THEN First(SelectSeq(e.kids, IsHeading))
    ELSE IF First(SelectSeq(e.kids, IsAnchor)) # None THEN First(SelectSeq(e.kids, IsAnchor))
    ELSE First(SelectSeq(e.kids, IsTitleClass))

\* article_element.get_text(separator=' ', strip=True)
FullText(e) == Flatten([i \in 1..Len(e.kids) |-> e.kids[i].text])

\* re.sub(r'^<lead> [A-Za-z]+ \d{1,2}, \d{4}\s*', '', description, IGNORECASE)
StripLead(desc, lead) ==
    IF /\ desc # <<>> /\ Head(desc).k = "d"
       /\ Lower(Head(desc).lead) = lead /\ Head(desc).ds.form = "named"
    THEN Tail(desc) ELSE desc

\* description[:500] + "..." when longer than 500 characters
Truncate(desc) ==
    IF TextChars(desc) > MaxDescription
    THEN [text |-> desc, chars |-> MaxDescription + 3, ellipsis |-> TRUE]
    ELSE [text |-> desc, chars |-> TextChars(desc), ellipsis |-> FALSE]

\* the record returned, or the exception that leaves the function:
\* [raised, title, link, description, pub_date]
extract_article_info(e, lb, c) ==
    LET title_elem == TitleElem(e)
        title      == IF title_elem # None THEN title_elem.text ELSE <<>>
        link_elem  == First(SelectSeq(e.kids, IsLink))
        joined     == IF link_elem # None THEN urljoin(base_url, link_elem.href)
                      ELSE [ok |-> TRUE, url |-> <<>>]
        full_text  == FullText(e)
        desc0      == IF title # <<>> /\ IsPrefix(title, full_text)
                      THEN SubSeq(full_text, Len(title) + 1, Len(full_text))
                      ELSE full_text
        desc       == StripLead(StripLead(desc0, "posted on"), "published on")
    IN [raised      |-> ~joined.ok,
        title       |-> title,
        link        |-> joined.url,
        description |-> Truncate(desc),
        pub_date    |-> extract_date_from_text(full_text, lb, c)]

\* the dict appended to articles
Info(x) == [title |-> x.title, link |-> x.link,
            description |-> x.description, pub_date |-> x.pub_date]

(***************************************************************************)
(* generate_rss: the feed as a tree, [tag, attrs, text, kids]              *)
(***************************************************************************)
Node(tag, attrs, text, kids) == [tag |-> tag, attrs |-> attrs, text |-> text, kids |-> kids]
Leaf(tag, text) == Node(tag, <<>>, text, <<>>)

\* the children of channel that precede the items
ChannelMeta(lb, c) ==
    << Leaf("title", "City of Belvedere News"),
       Leaf("link", news_url),
       Leaf("description", "Official news and updates from the City of Belvedere, California"),
       Leaf("language", "en-us"),
       Leaf("lastBuildDate", NowIn(get_pacific_timezone(lb, None, c), c)),
       Leaf("managingEditor", "clerk@cityofbelvedere.org (City of Belvedere)"),
       Leaf("webMaster", "clerk@cityofbelvedere.org (City of Belvedere)"),
       Node("atom:link", <<"href", base_url \o <<"/", "rss.xml">>, "rel", "self",
                           "type", "application/rss+xml">>, "", <<>>) >>

\* one pass of the loop over articles
Item(article) ==
    Node("item", <<>>, "",
         << Leaf("title", article.title),
            Leaf("link", article.link),
            Leaf("description", article.description),
            Leaf("pubDate", article.pub_date),
            Node("guid", <<"isPermaLink", "true">>, article.link, <<>>) >>)

\* a variant that puts each new item in front
RECURSIVE ItemsReversed(_)
ItemsReversed(as) ==
    IF as = <<>> THEN <<>> ELSE ItemsReversed(Tail(as)) \o <<Item(Head(as))>>

RECURSIVE Items(_)
Items(as) == IF as = <<>> THEN <<>> ELSE <<Item(Head(as))>> \o Items(Tail(as))

generate_rss(as, lb, c) ==
    Node("rss", <<"version", "2.0", "xmlns:atom", "http://www.w3.org/2005/Atom">>, "",
         << Node("channel", <<>>, "", ChannelMeta(lb, c) \o Items(as)) >>)

(***************************************************************************)
(* The pages served                                                        *)
(***************************************************************************)
MaxArticles == 20
MaxLen == 2
MaxExtra == 1

Budget == <<W("Budget", 6)>>
Parade == <<W("Parade", 6)>>
More == <<W("more", 4)>>
PostedBody == <<D("Posted on", Named("May", 20, 2025, "none")), W("Details", 7)>>
LongBody == <<W("Minutes", 600)>>

HrefNewsA == <<"/", "news", "/", "a">>
HrefNewsB == <<"/", "news", "/", "b">>
HrefFile == <<"item.html">>
HrefPath == <<"docs", "/", "item.html">>
HrefAbs == <<"https:", "/", "/", "x.org", "/", "p">>
HrefBad == <<"http:", "/", "/", "[", "/", "news">>

KFullA == <<H(Budget), T(PostedBody), A(HrefNewsA, More)>>
KDupA == <<H(Parade), A(HrefNewsA, More)>>
KLinkB == <<A(HrefNewsB, Parade)>>
KBad == <<A(HrefBad, Budget)>>
KEmptyHeading == <<H(<<>>), A(HrefNewsB, More)>>
KText == <<T(LongBody)>>
KFile == <<A(HrefFile, Budget)>>
KPath == <<A(HrefPath, Budget)>>
KAbs == <<A(HrefAbs, Budget)>>
KAnchorFirst == <<Anchor(<<>>), A(HrefNewsB, Parade)>>
KHeadline == <<S(<<"headline">>, Budget), T(LongBody)>>

NewsItem == <<"news", "-", "item">>

Elements ==
    { Elem("article", <<>>, KFullA),
      Elem("div", <<"post">>, KDupA),
      Elem("div", NewsItem, KFullA),
      Elem("div", NewsItem, KDupA),
      Elem("div", NewsItem, KLinkB),
      Elem("div", NewsItem, KBad),
      Elem("div", NewsItem, KEmptyHeading),
      Elem("div", <<"entry">>, KHeadline),
      Elem("div", <<"news", "feed">>, KLinkB),
      Elem("div", <<>>, KLinkB),
      Elem("div", <<>>, KFullA),
      Elem("section", <<>>, KAbs),
      Elem("p", <<>>, KLinkB),
      Elem("p", <<>>, KDupA),
      Elem("p", <<>>, KBad),
      Elem("p", <<>>, KFile),
      Elem("p", <<>>, KPath),
      Elem("p", <<>>, KAnchorFirst),
      Elem("p", <<>>, KText) }

LongElements ==
    { Elem("div", NewsItem, KFullA),
      Elem("div", NewsItem, KLinkB),
      Elem("div", NewsItem, KBad),
      Elem("div", NewsItem, KEmptyHeading),
      Elem("p", <<>>, KLinkB),
      Elem("p", <<>>, KText) }

Repeat(e, n) == [i \in 1..n |-> e]

ShortPages == UNION {[1..n -> Elements] : n \in 0..MaxLen}

\* pages around the cap: one element, a run of equal elements, one element
LongPages ==
    {<<h>> \o Repeat(f, n) \o <<t>> :
        h \in LongElements, f \in LongElements, t \in LongElements,
        n \in (MaxArticles - 2)..(MaxArticles - 2 + MaxExtra)}

Pages == ShortPages \cup LongPages

(***************************************************************************)
(* run and main                                                            *)
(***************************************************************************)
Min(a, b) == IF a < b THEN a ELSE b

\* a variant without the slice
WindowAll(elems) == elems

\* article_elements[:20]
Window(elems) == SubSeq(elems, 1, Min(Len(elems), MaxArticles))

NoFeed == Leaf("none", "")

RunInit ==
    /\ pc = "start"
    /\ page \in Pages
    /\ out_file \in {"", "belvedere_news.xml"}
    /\ libs \in BOOLEAN
    /\ now = Clocks[1]
    /\ html = "None"
    /\ article_elements = <<>>
    /\ tier = 0
    /\ idx = 0
    /\ seen_links = {}
    /\ articles = <<>>
    /\ failed = {}
    /\ feed = NoFeed
    /\ calls = [parse |-> 0, generate |-> 0]
    /\ ret = "none"
    /\ exit_code = -1
    /\ d_input = NoDateInput
    /\ d_results = <<>>

\* run, lines 330-335: fetch_page returns the text, or None on a request
\* error; an empty body is as false as None
FetchPage ==
    /\ pc = "start"
    /\ \E got \in {"None", "", "page"} :
          /\ html' = got
          /\ IF got # "page"
             THEN ret' = "False" /\ pc' = "returned"
             ELSE ret' = ret /\ pc' = "parse"
    /\ UNCHANGED <<page, out_file, article_elements, tier, idx, seen_links,
                   articles, failed, feed, calls, exit_code, dvars>>

\* parse_news_page, lines 197-243: the cascade that fills article_elements
SelectCandidates ==
    /\ pc = "parse"
    /\ article_elements' = Candidates(page).elems
    /\ tier' = Candidates(page).tier
    /\ idx' = 1
    /\ seen_links' = {}
    /\ articles' = <<>>
    /\ calls' = [calls EXCEPT !.parse = @ + 1]
    /\ pc' = "loop"
    /\ UNCHANGED <<page, out_file, html, failed, feed, ret, exit_code, dvars>>

\* a variant that forgets the duplicate test
SkippedIgnoringSeen(info, seen) == info.title = <<>> \/ info.link = <<>>

\* the test of lines 249-251
Skipped(info, seen) == info.title = <<>> \/ info.link = <<>> \/ info.link \in seen

\* a variant whose except branch throws away what was collected
OnErrorReset(i) ==
    /\ failed' = failed \cup {i}
    /\ articles' = <<>>
    /\ seen_links' = seen_links

\* the except branch of lines 257-259: report and go on
OnError(i) ==
    /\ failed' = failed \cup {i}
    /\ UNCHANGED <<seen_links, articles>>

\* parse_news_page, lines 244-259: one pass of the loop
ProcessCandidate ==
    /\ pc = "loop"
    /\ idx <= Len(Window(article_elements))
    /\ LET x == extract_article_info(article_elements[idx], libs, now) IN
          IF x.raised THEN OnError(idx)
          ELSE IF Skipped(x, seen_links)
          THEN UNCHANGED <<seen_links, articles, failed>>
          ELSE /\ seen_links' = seen_links \cup {x.link}
               /\ articles' = Append(articles, Info(x))
               /\ failed' = failed
    /\ idx' = idx + 1
    /\ UNCHANGED <<pc, page, out_file, html, article_elements, tier, feed, calls,
                   ret, exit_code, dvars>>

\* a variant of run that goes on to generate_rss whatever was found
ParseReturnUnchecked ==
    /\ pc = "loop"
    /\ idx > Len(Window(article_elements))
    /\ ret' = ret /\ pc' = "generate"
    /\ UNCHANGED <<page, out_file, html, article_elements, tier, idx, seen_links,
                   articles, failed, feed, calls, exit_code, dvars>>

\* parse_news_page returns (line 261); run, lines 338-342
ParseReturn ==
    /\ pc = "loop"
    /\ idx > Len(Window(article_elements))
    /\ IF articles = <<>>
       THEN ret' = "False" /\ pc' = "returned"
       ELSE ret' = ret /\ pc' = "generate"
    /\ UNCHANGED <<page, out_file, html, article_elements, tier, idx, seen_links,
                   articles, failed, feed, calls, exit_code, dvars>>

\* run, lines 351-354, with generate_rss, lines 263-326: the document is
\* written to output_file when one is given (open or write may fail, and
\* nothing catches that), else returned and dropped by run
GenerateRss ==
    /\ pc = "generate"
    /\ calls' = [calls EXCEPT !.generate = @ + 1]
    /\ IF out_file # ""
       THEN \E written \in BOOLEAN :
               IF written
               THEN feed' = generate_rss(articles, libs, now)
                    /\ ret' = "True" /\ pc' = "returned"
               ELSE feed' = feed /\ ret' = ret /\ pc' = "raised"
       ELSE feed' = generate_rss(articles, libs, now)
            /\ ret' = "True" /\ pc' = "returned"
    /\ UNCHANGED <<page, out_file, html, article_elements, tier, idx, seen_links,
                   articles, failed, exit_code, dvars>>

\* main, lines 361-368: sys.exit(1) unless run succeeded; an exception that
\* leaves run ends the interpreter with status 1 as well
MainExit ==
    /\ pc \in {"returned", "raised"}
    /\ exit_code' = IF pc = "returned" /\ ret = "True" THEN 0 ELSE 1
    /\ pc' = "exited"
    /\ UNCHANGED <<page, out_file, html, article_elements, tier, idx, seen_links,
                   articles, failed, feed, calls, ret, dvars>>

Next ==
    \/ FetchPage
    \/ SelectCandidates
    \/ ProcessCandidate
    \/ ParseReturn
    \/ GenerateRss
    \/ MainExit

Spec == RunInit /\ [][Next]_vars

(***************************************************************************)
(* generate_rss on its own, for any list of article records                *)
(***************************************************************************)
MaxItems == 3

SampleDates ==
    { Format(2025, 5, 20, 12, 0, PDT), Format(2025, 1, 5, 12, 0, PST) }

SampleArticles ==
    { [title |-> tt, link |-> base_url \o h,
       description |-> Truncate(More), pub_date |-> pd] :
         tt \in {Budget, Parade}, h \in {HrefNewsA, HrefNewsB}, pd \in SampleDates }

FeedInit ==
    /\ pc = "generate"
    /\ articles \in UNION {[1..n -> SampleArticles] : n \in 0..MaxItems}
    /\ out_file \in {"", "belvedere_news.xml"}
    /\ libs \in BOOLEAN
    /\ now = Clocks[1]
    /\ page = <<>> /\ html = "page" /\ article_elements = <<>> /\ tier = 0
    /\ idx = 0 /\ seen_links = {} /\ failed = {} /\ feed = NoFeed
    /\ calls = [parse |-> 0, generate |-> 0] /\ ret = "none" /\ exit_code = -1
    /\ d_input = NoDateInput /\ d_results = <<>>

FeedNext == GenerateRss

SpecFeed == FeedInit /\ [][FeedNext]_vars

(***************************************************************************)
(* Properties                                                              *)
(***************************************************************************)

\* parse_news_page has returned
ParseDone == calls.parse = 1 /\ pc \in {"generate", "returned", "raised", "exited"}

\* the candidates the loop goes through, and what extraction gives for each
Examined == SubSeq(article_elements, 1, Min(Len(article_elements), 20))

RECURSIVE ExtractAll(_, _, _)
ExtractAll(es, lb, c) ==
    IF es = <<>> THEN <<>>
    ELSE <<extract_article_info(Head(es), lb, c)>> \o ExtractAll(Tail(es), lb, c)

\* an extraction result that carries a title and a link
Usable(x) == ~x.raised /\ x.title # <<>> /\ x.link # <<>>

\* position i is the earliest usable one of xs with its link
IsEarliest(xs, i) ==
    /\ Usable(xs[i])
    /\ \A j \in 1..(i - 1) : ~(Usable(xs[j]) /\ xs[j].link = xs[i].link)

\* the members of a set of numbers, in increasing order
RECURSIVE Ascending(_)
Ascending(ns) ==
    IF ns = {} THEN <<>>
    ELSE LET lo == CHOOSE n \in ns : \A n2 \in ns : n <= n2
         IN <<lo>> \o Ascending(ns \ {lo})

\* C1: the returned links are pairwise distinct; the link of every usable
\* examined candidate is returned, with the record of the earliest usable
\* candidate that has that link; every later one is dropped
C1_DistinctLinksFirstWins ==
    ParseDone =>
        LET xs == ExtractAll(Examined, libs, now) IN
        /\ \A a, b \in 1..Len(articles) : a # b => articles[a].link # articles[b].link
        /\ \A i \in 1..Len(xs) : IsEarliest(xs, i) =>
              \E a \in 1..Len(articles) : articles[a] = Info(xs[i])
        /\ \A a \in 1..Len(articles) :
              \E i \in 1..Len(xs) : IsEarliest(xs, i) /\ articles[a] = Info(xs[i])

C1_Witness ==
    /\ ParseDone
    /\ LET xs == ExtractAll(Examined, libs, now) IN
       \E i, j \in 1..Len(xs) :
          /\ i < j /\ Usable(xs[i]) /\ Usable(xs[j])
          /\ xs[i].link = xs[j].link
          /\ xs[i].title # xs[j].title
          /\ \E a \in 1..Len(articles) : articles[a] = Info(xs[i])

\* generate_rss ended by raising: run returned nothing
GenerateRaised == calls.generate = 1 /\ ret = "none" /\ pc \in {"raised", "exited"}

\* what C2 says of every case
RunGuards ==
    /\ calls.generate <= 1 /\ calls.parse <= 1
    /\ (calls.generate = 1 => html = "page" /\ calls.parse = 1 /\ articles # <<>>)
    /\ (pc # "start" /\ html # "page" =>
            ret = "False" /\ calls.parse = 0 /\ calls.generate = 0)
    /\ (ParseDone /\ articles = <<>> => ret = "False" /\ calls.generate = 0)

\* C2 as stated: ... run returns True exactly when generate_rss was called
\* once, and main exits with code 1 exactly when run returned False
C2_RunOutcome ==
    /\ RunGuards
    /\ (pc \in {"returned", "raised", "exited"} =>
            (ret = "True" <=> calls.generate = 1))
    /\ (pc = "exited" => (exit_code = 1 <=> ret = "False"))

\* C2 amended: run returns True exactly when generate_rss was called once and
\* returned; when it raised (the output file could not be written) run
\* returns nothing and the process ends with status 1, as it does when run
\* returned False; the status is 0 exactly when run returned True
C2_RunOutcomeUnlessWriteFails ==
    /\ RunGuards
    /\ (pc \in {"returned", "raised", "exited"} =>
            (ret = "True" <=> (calls.generate = 1 /\ ~GenerateRaised)))
    /\ (GenerateRaised => out_file # "")
    /\ (pc = "exited" =>
            /\ exit_code \in {0, 1}
            /\ (exit_code = 1 <=> (ret = "False" \/ GenerateRaised))
            /\ (exit_code = 0 <=> ret = "True"))

C2_Witness ==
    /\ pc = "exited" /\ ret = "True" /\ exit_code = 0
    /\ calls.generate = 1 /\ out_file # ""

\* the elements of class news-item, in document order
IsNewsItem(e) == e.cls = <<"news", "-", "item">>
NewsItems == SelectSeq(page, IsNewsItem)
CandidatesChosen == calls.parse = 1

\* C3 as stated: on any page with an element of class news-item the candidate
\* list is exactly the news-item elements, and tiers 2 and 3 add nothing
C3_NewsItemsAreTheCandidates ==
    CandidatesChosen /\ NewsItems # <<>> =>
        article_elements = NewsItems /\ tier = 1

\* an earlier selector of the list ('article', '.post') matches something
EarlierSelectorMatches ==
    \E i \in 1..Len(page) : page[i].tag = "article" \/ page[i].cls = <<"post">>

\* C3 amended: on any page with an element of class news-item and no element
\* matched by an earlier selector (an article tag, class post), the candidate
\* list is exactly the news-item elements, and tiers 2 and 3 add nothing
C3_NewsItemsUnlessEarlierSelector ==
    CandidatesChosen /\ NewsItems # <<>> /\ ~EarlierSelectorMatches =>
        article_elements = NewsItems /\ tier = 1

C3_Witness ==
    /\ CandidatesChosen /\ NewsItems # <<>> /\ ~EarlierSelectorMatches
    /\ Len(NewsItems) < Len(page)
    /\ \E i \in 1..Len(page) : ClassContains(page[i], "news") /\ ~IsNewsItem(page[i])
    /\ article_elements = NewsItems

\* no selector of article_selectors matches any element of the page
NoSelectorMatches ==
    \A i \in 1..Len(page) :
        /\ page[i].tag # "article"
        /\ page[i].cls # <<"entry">>
        /\ \A k \in 1..Len(page[i].cls) : page[i].cls[k] \notin {"post", "article", "news"}

\* the hyperlinks of the page: <<element, kid>> positions of a elements with href
PageLinks ==
    {ik \in (1..Len(page)) \X (1..3) :
        /\ ik[2] <= Len(page[ik[1]].kids)
        /\ page[ik[1]].kids[ik[2]].k = "a"
        /\ page[ik[1]].kids[ik[2]].has_href}

LinkAt(ik) == page[ik[1]].kids[ik[2]]

\* a hyperlink with visible text and a relative href (no scheme)
RelativeLinkWithText ==
    \E ik \in PageLinks :
        LinkAt(ik).text # <<>> /\ LinkAt(ik).href # <<>> /\ ~HasScheme(LinkAt(ik).href)

RootedLinkWithText ==
    \E ik \in PageLinks :
        /\ LinkAt(ik).text # <<>>
        /\ (StartsWithSlash(LinkAt(ik).href) \/ ContainsNews(LinkAt(ik).href))

NoTier2Element == \A i \in 1..Len(page) : ~Tier2Matches(page[i])

C5_ItemsMirrorArticles ==
    calls.generate = 1 /\ ret = "True" =>
        LET ch == feed.kids[1].kids
            n  == Len(articles)
        IN /\ feed.kids[1].tag = "channel"
           /\ Len(ch) = 8 + n
           /\ \A k \in 1..8 : ch[k].tag # "item"
           /\ \A k \in 1..n :
                 /\ ch[8 + k].tag = "item"
                 /\ Len(ch[8 + k].kids) = 5
                 /\ ch[8 + k].kids[1] = Leaf("title", articles[k].title)
                 /\ ch[8 + k].kids[2] = Leaf("link", articles[k].link)
                 /\ ch[8 + k].kids[3] = Leaf("description", articles[k].description)
                 /\ ch[8 + k].kids[4] = Leaf("pubDate", articles[k].pub_date)
                 /\ ch[8 + k].kids[5].tag = "guid"
                 /\ ch[8 + k].kids[5].text = ch[8 + k].kids[2].text
                 /\ ch[8 + k].kids[5].attrs = <<"isPermaLink", "true">>

C5_Witness ==
    /\ calls.generate = 1 /\ ret = "True" /\ Len(articles) = 3
    /\ articles[1].link = articles[3].link
    /\ articles[1].title # articles[3].title
    /\ articles[1].pub_date.mon < articles[2].pub_date.mon
    /\ Len(feed.kids[1].kids) = 11

\* the call under study names a month of the table and a possible day, and
\* carries no zone designation of its own
NamesCalendarDate ==
    /\ d_input.mode = "parse" /\ d_input.ds.form = "named"
    /\ d_input.ds.tail # "zone"
    /\ Lower(d_input.ds.word) \in DOMAIN month_map
    /\ ValidDate(d_input.ds.year, month_map[Lower(d_input.ds.word)], d_input.ds.a)

\* C6: a calendar date parsed from the input is formatted with the offset of
\* that date: -0700 in the daylight-saving window, -0800 outside it, whatever
\* the clock says
C6_OffsetFollowsDate ==
    NamesCalendarDate =>
        \A i \in 1..Len(d_results) :
            LET r == d_results[i].out
                m == month_map[Lower(d_input.ds.word)]
            IN /\ r.y = d_input.ds.year /\ r.mon = m /\ r.d = d_input.ds.a
               /\ r.off \in {-700, -800}
               /\ (m \in 4..10 => r.off = -700)
               /\ (m \in {12, 1, 2} => r.off = -800)

\* the date text the patterns capture from the text under study
TextCaptured == d_input.mode = "extract" /\ FirstPattern(d_input.text) # 0

AllResultsEqual ==
    \A i, j \in 1..Len(d_results) : d_results[i].out = d_results[j].out

\* C7 as stated: whatever date text the five patterns capture, two calls at
\* different clock values return the same string
C7_CapturedTextSameOutput == TextCaptured => AllResultsEqual

\* the captured text names its month in a way the parser in use resolves
\* (a month name of the table; with the free-form parser also "Sept" or a
\* number) and the date exists
Resolves(ds, lb) ==
    IF lb THEN dateutil_parse(ds).ok
    ELSE /\ ds.form = "named" /\ Lower(ds.word) \in DOMAIN month_map
         /\ ValidDate(ds.year, month_map[Lower(ds.word)], ds.a)

\* C7 amended: for a captured date text that the parser in use resolves to a
\* calendar date, two calls at different clock values return the same string;
\* any other captured text is formatted from the clock
C7_ResolvedTextSameOutput ==
    TextCaptured /\ Resolves(Captured(d_input.text), libs) => AllResultsEqual

C7_Witness ==
    /\ TextCaptured /\ Resolves(Captured(d_input.text), libs)
    /\ Len(d_results) = 2
    /\ d_results[1].at.m = 1 /\ d_results[2].at.m = 7
    /\ d_results[1].out = d_results[2].out
    /\ ~libs

\* C8: only the first 20 candidates are examined; the result is at most 20
\* records, each with a title and a link, in the order of their candidates,
\* and nothing past position 20 contributes
C8_FirstTwentyOnly ==
    /\ idx <= 21
    /\ \A i \in failed : i <= 20
    /\ ParseDone =>
        LET xs   == ExtractAll(Examined, libs, now)
            kept == Ascending({i \in 1..Len(xs) : IsEarliest(xs, i)})
        IN /\ Len(articles) <= 20
           /\ \A a \in 1..Len(articles) :
                 articles[a].title # <<>> /\ articles[a].link # <<>>
           /\ Len(articles) = Len(kept)
           /\ \A a \in 1..Len(articles) : articles[a] = Info(xs[kept[a]])

C8_Witness ==
    /\ ParseDone
    /\ Len(article_elements) > 20
    /\ Len(articles) < 20
    /\ LET late == extract_article_info(article_elements[21], libs, now) IN
          /\ Usable(late)
          /\ \A a \in 1..Len(articles) : articles[a].link # late.link

\* what the loop returns for candidates none of which fails
RECURSIVE ParseRef(_, _, _, _)
ParseRef(es, seen, lb, c) ==
    IF es = <<>> THEN <<>>
    ELSE LET x == extract_article_info(Head(es), lb, c) IN
         IF x.title = <<>> \/ x.link = <<>> \/ x.link \in seen
         THEN ParseRef(Tail(es), seen, lb, c)
         ELSE <<Info(x)>> \o ParseRef(Tail(es), seen \cup {x.link}, lb, c)

\* C9, the step: the pass of the loop in which a candidate raises leaves
\* articles and seen_links as they were and moves on to the next candidate
FailureStepSkips ==
    failed' # failed =>
        /\ articles' = articles /\ seen_links' = seen_links
        /\ idx' = idx + 1 /\ pc' = "loop" /\ pc = "loop"
        /\ failed' = failed \cup {idx}

\* C9, the result: the list returned is what the loop gives for the examined
\* candidates with the failing ones taken out; every failing candidate among
\* them was gone through, and no failure left parse_news_page
FailuresLeftOut ==
    /\ (pc = "raised" => calls.generate = 1)
    /\ ParseDone =>
        LET xs    == ExtractAll(Examined, libs, now)
            Ok(e) == ~extract_article_info(e, libs, now).raised
        IN /\ failed = {i \in 1..Len(xs) : xs[i].raised}
           /\ articles = ParseRef(SelectSeq(Examined, Ok), {}, libs, now)
           /\ seen_links = {articles[a].link : a \in 1..Len(articles)}

\* C9: a candidate whose processing raises is skipped and nothing else
\* changes: the loop goes on, articles and seen_links stay as they were, the
\* list returned is the one the window without the failing candidates gives,
\* and the failure stays inside parse_news_page
C9_FailureSkipsOnlyThatCandidate == []FailuresLeftOut /\ [][FailureStepSkips]_vars

C9_Witness ==
    /\ ParseDone
    /\ LET xs == ExtractAll(Examined, libs, now) IN
       \E i \in failed :
          /\ \E j \in 1..(i - 1) : IsEarliest(xs, j)
          /\ \E j \in (i + 1)..Len(xs) : IsEarliest(xs, j)
          /\ Len(articles) = 2

\* C10: an error on one field inside extract_article_info degrades that
\* field and a record is still returned, so no candidate is abandoned to the
\* except branch of parse_news_page
C10_FieldErrorKeepsCandidate == failed = {}

====
